---- MODULE Spec2Model ----
(***************************************************************************)
(* Presence tracking, diffing and notification dispatch of the Realms      *)
(* playerlist bot: the bot object's caches (src/main.py), its startup      *)
(* routine start(), the playerlist event listeners                          *)
(* (src/exts/pl_event_handling.py) and the guild event listeners           *)
(* (src/exts/etc_events.py).  The poll scheduler, the diff engine,         *)
(* the failure-counter helpers and the event bus are not part of the       *)
(* sources at hand; they are modelled after the specification (sections    *)
(* 4.4, 4.5, 4.6 and 4.8) and are marked as such where they are defined.   *)
(* Every listener is a coroutine that runs as a task of its own: it takes   *)
(* one step from one await to the next, and the steps of the listeners     *)
(* that have started interleave.                                            *)
(***************************************************************************)
EXTENDS Integers, Sequences, FiniteSets, TLC

VARIABLES
    now,                    \* wall clock, in minutes
    epoch,                  \* number of process starts so far
    test_mode,              \* utils.TEST_MODE of the running process
    online_cache,           \* bot.online_cache: realm -> set of xuids
    uuid_cache,             \* bot.uuid_cache: "{realm}-{xuid}" -> custom_id (0: no key)
    next_uuid,              \* number of identifiers uuid.uuid4 has handed out
    offline_realms,         \* bot.offline_realms
    live_playerlist_store,  \* bot.live_playerlist_store: realm -> set of guild ids
    pl_sem,                 \* bot.pl_sem: permits left
    inflight,               \* realm -> outcomes of the poll cycles in flight
    events,                 \* events dispatched, each with its listener's progress
    sessions,               \* PlayerSession table: custom_id -> row
    missing_realm,          \* redis keys missing-realm-{id}
    configs,                \* GuildConfig table: guild id -> row
    invalid_count,          \* failure counters: guild id -> class -> count
    attempted,              \* guilds the listener that stepped last has tried to deliver to
    delivered,              \* guilds the listener that stepped last has delivered to
    fail_calls,             \* guild id -> failed deliveries since the last deactivation
    recovered,              \* custom_ids start() last corrected to offline
    down_streak,            \* realm -> unreachable poll outcomes in a row (capped)
    dropped,                \* realms the bot has left at the source (leave_realm)
    warned,                 \* guilds a staleness warning has been delivered to
    last_data               \* realm -> time of its last non-empty source response

vars == <<now, epoch, test_mode, online_cache, uuid_cache, next_uuid,
          offline_realms, live_playerlist_store, pl_sem, inflight, events,
          sessions, missing_realm, configs, invalid_count, attempted, delivered,
          fail_calls, recovered,
          down_streak, dropped, warned, last_data>>

----------------------------------------------------------------------------
\* Bounds of the model.

NumPollTasks == 13
MaxNow == 6
MaxUuid == 3
MaxEvents == 3
\* the events with their listeners when a poll starts: none, or one at most
Idle == 0
ShortQueue == 1
MaxRestarts == 2
MaxStreak == 2
MaxClock == 1446

\* the realms, players and guilds followed in detail
Realms == {1, 2}
Players == {1, 2}
Guilds == {1, 2}
\* every realm the scheduler runs a poll cycle for; only Realms have subscribers
PollTasks == 1..NumPollTasks
Keys == Realms \X Players
Ids == 1..MaxUuid

----------------------------------------------------------------------------
\* Program constants.

\* a gate one permit wider
PlSemLoose == 12 + 1

\* asyncio.Semaphore(12)
PlSemValue == 12
\* datetime.timedelta(minutes=5)
GraceMinutes == 5
\* default limit of eventually_invalidate (the channel failure class)
ChannelLimit == 3
\* eventually_invalidate(..., limit=7) (the realm-data-missing class)
MissingLimit == 7

NoRow == [custom_id |-> 0]
NoConfig == [guild_id |-> 0]
NoRealm == 0

\* limit of eventually_invalidate_realm_offline (the offline-role class)
RoleLimit == 3

FailureClasses == {"channel", "missing", "role"}

Limit(class) ==
    CASE class = "channel" -> ChannelLimit
      [] class = "missing" -> MissingLimit
      [] class = "role" -> RoleLimit

----------------------------------------------------------------------------
\* IdentityResolver: bot.uuid_cache = defaultdict(uuid.uuid4).

\* a lookup that hands out a new identifier whether or not the key is known
ResolveAlwaysFresh(cache, n, k) ==
    [id |-> n + 1, cache |-> [cache EXCEPT ![k] = n + 1], next |-> n + 1]

\* bot.uuid_cache[key]: the cached identifier, or a new uuid4 stored under key
Resolve(cache, n, k) ==
    IF cache[k] # 0
    THEN [id |-> cache[k], cache |-> cache, next |-> n]
    ELSE [id |-> n + 1, cache |-> [cache EXCEPT ![k] = n + 1], next |-> n + 1]

\* the orders a set can be iterated in
Orders(S) ==
    {o \in [1..Cardinality(S) -> S] : \A i, j \in 1..Cardinality(S) : o[i] = o[j] => i = j}

\* the lookups of one comprehension over the players of realm r, in the order
\* the iteration of the set yields them
RECURSIVE ResolveAll(_, _, _, _)
ResolveAll(cache, n, r, order) ==
    IF order = <<>>
    THEN [cache |-> cache, next |-> n, ids |-> [p \in {} |-> 0]]
    ELSE LET p == Head(order)
             one == Resolve(cache, n, <<r, p>>)
             rest == ResolveAll(one.cache, one.next, r, Tail(order))
         IN  [cache |-> rest.cache, next |-> rest.next,
              ids |-> [q \in {order[k] : k \in 1..Len(order)} |->
                          IF q = p THEN one.id ELSE rest.ids[q]]]

----------------------------------------------------------------------------
\* PlayerSession rows and the bulk upsert.

PlayerSession(id, r, p, on, seen) ==
    [custom_id |-> id, realm_id |-> r, xuid |-> p, online |-> on, last_seen |-> seen]

\* an upsert that inserts new rows and leaves a conflicting row as it is
BulkCreateIgnoreConflict(table, rows, fields) ==
    [id \in Ids |->
        IF table[id] = NoRow /\ \E row \in rows : row.custom_id = id
        THEN CHOOSE row \in rows : row.custom_id = id
        ELSE table[id]]

\* PlayerSession.bulk_create(rows, on_conflict=("custom_id",), update_fields=fields)
BulkCreate(table, rows, fields) ==
    [id \in Ids |->
        IF \E row \in rows : row.custom_id = id
        THEN LET row == CHOOSE x \in rows : x.custom_id = id
                 old == table[id]
             IN  IF old = NoRow THEN row
                 ELSE [old EXCEPT
                        !.online = IF "online" \in fields THEN row.online ELSE @,
                        !.last_seen = IF "last_seen" \in fields THEN row.last_seen ELSE @]
        ELSE table[id]]

OnlineRows(table) == {id \in Ids : table[id] # NoRow /\ table[id].online}


----------------------------------------------------------------------------
\* Events, and the listener task each dispatched event has.

\* the local variables of a listener before it has read any configuration
NoCopies == [g \in Guilds |-> NoConfig]

\* @ipy.listen: the listeners registered for an event type, in the order of
\* their registration
Listeners(type) ==
    CASE type = "playerlist_parse_finish" -> <<"on_playerlist_finish">>
      [] type = "live_playerlist_send" -> <<"on_live_playerlist_send">>
      [] type = "realm_down" -> <<"realm_down">>
      [] type = "warn_missing_playerlist" -> <<"warning_missing_playerlist">>
      [] type = "guild_join" -> <<"on_guild_join">>
      [] type = "guild_left" -> <<"on_guild_left">>
      [] type = "error" -> <<"on_error">>

\* an event as dispatched: the payload of the event and the local variables
\* of its listener, which has not started yet (listener: the listener the
\* task runs, the first one registered unless Task names another; pc: where
\* the coroutine stands; order: the guilds its loop has still to go through;
\* fetched: the GuildConfig objects it has read; guilds: the guilds its loop
\* iterates; role: what guild.fetch_role returned)
Event(type, r, joined, left, ts, containers) ==
    [type |-> type, listener |-> Head(Listeners(type)),
     realm_id |-> r, joined |-> joined, left |-> left,
     timestamp |-> ts, containers |-> containers, guild_id |-> 0,
     ready |-> TRUE, blacklisted |-> FALSE,
     pc |-> "dispatched", order |-> <<>>, guilds |-> {}, fetched |-> NoCopies,
     no_playerlist_chan |-> <<>>, attempted |-> {}, delivered |-> {},
     role |-> "pingable", count |-> 0]

\* RealmPlayersContainer: the session rows of one realm and the fields to update
Container(rows, fields) == [player_sessions |-> rows, fields |-> fields]

PlayerlistParseFinish(containers) ==
    Event("playerlist_parse_finish", NoRealm, {}, {}, 0, containers)
LivePlayerlistSend(r, joined, left, ts) ==
    Event("live_playerlist_send", r, joined, left, ts, <<>>)
\* disconnected is carried in the field left
RealmDown(r, disconnected, ts) ==
    Event("realm_down", r, {}, disconnected, ts, <<>>)

\* the staleness signal of a realm: no data for the last 24 hours
WarnMissingPlayerlist(r, ts) ==
    Event("warn_missing_playerlist", r, {}, {}, ts, <<>>)
\* ipy.events.Error: a listener raised
Error == Event("error", NoRealm, {}, {}, 0, <<>>)

\* ipy.events.GuildLeft for guild g, received while bot.is_ready is ready
GuildLeft(g, ready) ==
    [Event("guild_left", NoRealm, {}, {}, 0, <<>>) EXCEPT
        !.guild_id = g, !.ready = ready]

\* ipy.events.GuildJoin for guild g, received while bot.is_ready is ready;
\* blacklisted: the guild is in bot.blacklist
GuildJoin(g, ready, blacklisted) ==
    [Event("guild_join", NoRealm, {}, {}, 0, <<>>) EXCEPT
        !.guild_id = g, !.ready = ready, !.blacklisted = blacklisted]

\* the task that runs one listener on event e
Task(e, listener) == [e EXCEPT !.listener = listener]

\* bot.dispatch(event): a task is created for every listener registered for
\* the type of the event, in the order of registration
Dispatch(queue, e) ==
    queue \o [n \in 1..Len(Listeners(e.type)) |-> Task(e, Listeners(e.type)[n])]

\* the listener of the event at position i has started
HasStarted(queue, i) == queue[i].pc # "dispatched"

\* the listener at position i can take its next step: the tasks start in the
\* order in which they were created, and the ones that have started resume
\* in any order
MayStep(queue, i) ==
    HasStarted(queue, i) \/ \A j \in 1..(i - 1) : HasStarted(queue, j)

\* the queue without the event at position i
Remove(queue, i) == SubSeq(queue, 1, i - 1) \o SubSeq(queue, i + 1, Len(queue))

\* a bus on which a listener's exception takes the other listeners with it
AfterListenerUnguarded(queue, i, raised) ==
    IF raised THEN <<>> ELSE Remove(queue, i)

\* the queue once the listener at position i has returned: each listener
\* runs within its own error boundary, and an exception is dispatched as an
\* Error event
AfterListener(queue, i, raised) ==
    IF raised THEN Dispatch(Remove(queue, i), Error) ELSE Remove(queue, i)

\* the listener of every realm-down event of realm r has started: a task
\* runs up to its first await before the poll loop comes to the realm again
ListenerStarted(queue, r) ==
    \A i \in 1..Len(queue) :
        ~(/\ queue[i].type = "realm_down"
          /\ queue[i].realm_id = r
          /\ ~HasStarted(queue, i))

----------------------------------------------------------------------------
\* GuildConfig rows.

GuildConfig(g, r, premium, chan, live, warn, role) ==
    [guild_id |-> g, realm_id |-> r, premium_code |-> premium,
     playerlist_chan |-> chan, live_playerlist |-> live,
     warning_notifications |-> warn, realm_offline_role |-> role]

\* GuildConfig.filter(realm_id=r)
ConfigsOf(table, r) ==
    {g \in Guilds : table[g] # NoConfig /\ table[g].realm_id = r}

----------------------------------------------------------------------------
\* start(): what the process holds once start() has run on the durable state.

\* a recovery that compares with <= instead of <
StaleInclusive(row, t) ==
    row # NoRow /\ row.online /\ row.last_seen <= t - GraceMinutes

\* PlayerSession.filter(online=True, last_seen__lt=five_minutes_ago)
Stale(row, t) ==
    row # NoRow /\ row.online /\ row.last_seen < t - GraceMinutes

\* ....update(online=False)
MarkStaleOffline(table, t) ==
    [id \in Ids |-> IF Stale(table[id], t) THEN [table[id] EXCEPT !.online = FALSE]
                    ELSE table[id]]

\* bot.online_cache[int(player.realm_id)].add(player.xuid), over the online rows
SeedOnlineCache(table) ==
    [r \in Realms |->
        {table[id].xuid : id \in {i \in OnlineRows(table) : table[i].realm_id = r}}]

\* bot.uuid_cache[player.realm_xuid_id] = player.custom_id, over the online rows:
\* the caches that loop can leave (the rows come in no stated order, the last
\* row of a key wins)
SeedUuidCaches(table) ==
    LET ids(k) == {i \in OnlineRows(table) : <<table[i].realm_id, table[i].xuid>> = k}
        cands(k) == IF ids(k) = {} THEN {0} ELSE ids(k)
        caches[S \in SUBSET Keys] ==
            IF S = {} THEN {<<>>}
            ELSE LET k == CHOOSE x \in S : TRUE
                 IN  {c @@ (k :> v) : c \in caches[S \ {k}], v \in cands(k)}
    IN  caches[Keys]

\* a start that does not read the keys missing-realm-*
SeedNoOfflineRealms(keys, tm) == {}

\* a start that reads the keys missing-realm-* in test mode only
SeedOfflineRealmsInTest(keys, tm) == IF tm THEN keys ELSE {}

\* bot.offline_realms, from the keys missing-realm-* unless utils.TEST_MODE
SeedOfflineRealms(keys, tm) == IF tm THEN {} ELSE keys

\* bot.live_playerlist_store[config.realm_id].add(config.guild_id), over the
\* configs the filter selects
SeedLiveStore(table) ==
    [r \in Realms |->
        {g \in Guilds : /\ table[g] # NoConfig
                        /\ table[g].premium_code
                        /\ table[g].realm_id = r
                        /\ table[g].playerlist_chan
                        /\ table[g].live_playerlist}]

\* the in-memory state start() builds from the tables db, keys, cfg at time t
Started(db, keys, cfg, t, tm) ==
    /\ test_mode' = tm
    /\ sessions' = MarkStaleOffline(db, t)
    /\ recovered' = {id \in Ids : Stale(db[id], t)}
    /\ online_cache' = SeedOnlineCache(sessions')
    /\ uuid_cache' \in SeedUuidCaches(sessions')
    /\ offline_realms' = SeedOfflineRealms(keys, tm)
    /\ live_playerlist_store' = SeedLiveStore(cfg)
    /\ pl_sem' = PlSemValue
    /\ inflight' = [r \in PollTasks |-> <<>>]
    /\ events' = <<>>

\* the process ends (a crash or a shutdown, at any point) and start() runs again
\* TM: the values of utils.TEST_MODE taken into account
start(TM) ==
    /\ epoch < MaxRestarts
    /\ epoch' = epoch + 1
    /\ \E tm \in TM : Started(sessions, missing_realm, configs, now, tm)
    /\ UNCHANGED <<now, next_uuid, missing_realm, configs, invalid_count, attempted,
                   delivered, fail_calls, down_streak, dropped, warned,
                   last_data>>

----------------------------------------------------------------------------
\* PollScheduler and DiffEngine (specification 4.4 and 4.5).

Snapshot(S) == [kind |-> "snapshot", players |-> S]
Unreachable == [kind |-> "unreachable", players |-> {}]
Transient == [kind |-> "transient", players |-> {}]
\* what the presence source can answer to a poll of realm r
Outcomes(r) ==
    IF r \in Realms
    THEN {Snapshot(S) : S \in SUBSET Players} \cup {Unreachable, Transient}
    ELSE {Transient}

\* a scheduler that starts a cycle for a realm whatever is in flight for it
MayStartAlways(fl, r) == TRUE

\* no-overlap: a realm mid-poll skips its tick
MayStart(fl, r) == fl[r] = <<>>

\* the admission gate lets a poll in while a permit is left
GateOpen(permits) == permits > 0

\* a tick of realm r: the cycle passes the gate and the external call is made;
\* out is what the source will answer
StartPoll(r, out) ==
    /\ ~test_mode
    /\ r \notin dropped
    /\ MayStart(inflight, r)
    /\ GateOpen(pl_sem)
    /\ pl_sem' = pl_sem - 1
    /\ inflight' = [inflight EXCEPT ![r] = Append(@, out)]
    /\ UNCHANGED <<now, epoch, test_mode, online_cache, uuid_cache, next_uuid,
                   offline_realms, live_playerlist_store, events, sessions,
                   missing_realm, configs, invalid_count, attempted, delivered,
                   fail_calls, recovered, down_streak, dropped, warned,
                   last_data>>

\* a diff that takes the whole snapshot as joined
JoinedAll(old, snapshot) == snapshot

\* a diff that never reports a departure
LeftNone(old, snapshot) == {}

\* DiffEngine.observe: joined = snapshot - current, left = current - snapshot
Joined(old, snapshot) == snapshot \ old
Left(old, snapshot) == old \ snapshot

\* the session rows of a delta, keyed by the resolver's identifiers
DeltaRows(ids, r, joined, left, ts) ==
    {PlayerSession(ids[p], r, p, p \in joined, ts) : p \in joined \cup left}

\* the fields a conflicting row takes from the new one
UpdateFields == {"online", "last_seen"}

\* the staleness threshold: 24 hours, in minutes
StaleMinutes == 24 * 60

\* a companion path that signals at the threshold already
IsStaleInclusive(seen, t) == t - seen >= StaleMinutes

\* the time since the last non-empty response exceeds the threshold
IsStale(seen, t) == t - seen > StaleMinutes

\* the cycle of realm r ends with a snapshot: diff, store update, events; the
\* companion path notes a non-empty response and dispatches the staleness
\* signal, alongside the delta if there is one
PollSnapshot(r, S) ==
    \E players \in Orders(Joined(online_cache[r], S) \cup Left(online_cache[r], S)) :
    LET joined == Joined(online_cache[r], S)
        left == Left(online_cache[r], S)
        res == ResolveAll(uuid_cache, next_uuid, r, players)
        seen == IF S # {} THEN now ELSE last_data[r]
        delta == IF joined = {} /\ left = {}
                 THEN events
                 ELSE Dispatch(
                          Dispatch(events,
                              PlayerlistParseFinish(
                                  <<Container(
                                      DeltaRows(res.ids, r, joined, left, now),
                                      UpdateFields)>>)),
                          LivePlayerlistSend(r, joined, left, now))
    IN  /\ offline_realms' = offline_realms \ {r}
        /\ missing_realm' = missing_realm \ {r}
        /\ down_streak' = [down_streak EXCEPT ![r] = 0]
        /\ last_data' = [last_data EXCEPT ![r] = seen]
        /\ IF joined = {} /\ left = {}
           THEN UNCHANGED <<online_cache, uuid_cache, next_uuid>>
           ELSE /\ res.next <= MaxUuid
                /\ online_cache' = [online_cache EXCEPT ![r] = S]
                /\ uuid_cache' = res.cache
                /\ next_uuid' = res.next
        /\ events' = IF IsStale(seen, now)
                     THEN Dispatch(delta, WarnMissingPlayerlist(r, now))
                     ELSE delta
        /\ Len(events') <= MaxEvents

\* the source reports realm r unreachable: the offline state machine
PollUnreachable(r) ==
    /\ down_streak' = [down_streak EXCEPT ![r] = IF @ < MaxStreak THEN @ + 1 ELSE @]
    /\ IF r \in offline_realms
       THEN UNCHANGED <<offline_realms, missing_realm, events>>
       ELSE /\ Len(events) + 1 <= MaxEvents
            /\ offline_realms' = offline_realms \cup {r}
            /\ missing_realm' = missing_realm \cup {r}
            /\ events' = Dispatch(events, RealmDown(r, online_cache[r], now))
    /\ UNCHANGED <<online_cache, uuid_cache, next_uuid, last_data>>

\* a cycle that takes a transient error for unreachability
KindStrict(out) == IF out.kind = "transient" THEN "unreachable" ELSE out.kind

\* how the cycle takes the answer of the source
Kind(out) == out.kind

\* the external call of realm r's cycle returns; the cycle handles the answer
\* and gives its permit back; the answer for a realm dropped meanwhile is
\* discarded
FinishPoll(r) ==
    /\ inflight[r] # <<>>
    /\ ListenerStarted(events, r)
    /\ LET out == IF r \in dropped THEN Transient ELSE Head(inflight[r])
       IN  CASE Kind(out) = "snapshot" -> PollSnapshot(r, out.players)
             [] Kind(out) = "unreachable" -> PollUnreachable(r)
             [] Kind(out) = "transient" ->
                    UNCHANGED <<online_cache, uuid_cache, next_uuid, offline_realms,
                                missing_realm, events, down_streak, last_data>>
    /\ inflight' = [inflight EXCEPT ![r] = Tail(@)]
    /\ pl_sem' = pl_sem + 1
    /\ UNCHANGED <<now, epoch, test_mode, live_playerlist_store, sessions, configs,
                   invalid_count, attempted, delivered, fail_calls, recovered,
                   dropped, warned>>

\* a poll cycle that starts while no more than k events are with their
\* listeners: the tick of the poll loop comes once a minute, the listeners of
\* one cycle are through within seconds
StartPollWhen(r, out, k) == StartPoll(r, out) /\ Len(events) <= k

\* the source answers again with everyone who was online when realm r went
\* down, while the events of the outage are still with their listeners
ComesBack(r) ==
    /\ r \in offline_realms
    /\ StartPollWhen(r, Snapshot(online_cache[r]), ShortQueue)

\* twelve hours, in minutes
HalfDay == 12 * 60

\* half a day passes
HalfDayPasses ==
    /\ now + HalfDay <= MaxClock
    /\ now' = now + HalfDay
    /\ UNCHANGED <<epoch, test_mode, online_cache, uuid_cache, next_uuid,
                   offline_realms, live_playerlist_store, pl_sem, inflight, events,
                   sessions, missing_realm, configs, invalid_count, attempted,
                   delivered, fail_calls, recovered, down_streak, dropped, warned,
                   last_data>>

\* a minute passes
Tick ==
    /\ now < MaxNow
    /\ now' = now + 1
    /\ UNCHANGED <<epoch, test_mode, online_cache, uuid_cache, next_uuid,
                   offline_realms, live_playerlist_store, pl_sem, inflight, events,
                   sessions, missing_realm, configs, invalid_count, attempted,
                   delivered, fail_calls, recovered, down_streak, dropped, warned,
                   last_data>>


----------------------------------------------------------------------------
\* InvalidationPolicy (specification 4.8) and the deactivation helpers of
\* common.playerlist_utils.

\* what fetch_playerlist_channel and chan.send can come to for one guild: the
\* guild is not cached, the message is sent, fetch_playerlist_channel raises
\* ValueError, chan.send raises HTTPException, fetch_playerlist_channel
\* raises HTTPException
Deliveries == {"no_guild", "ok", "value_error", "http_error", "fetch_http_error"}

\* the state a step of listener task t works on: the tables and caches of
\* the bot, and the task's own variables
LoopState(cfg, store, counts, calls, seen, t) ==
    [configs |-> cfg, store |-> store, counts |-> counts, calls |-> calls,
     warned |-> seen, fetched |-> t.fetched, attempted |-> t.attempted,
     delivered |-> t.delivered, no_playerlist_chan |-> t.no_playerlist_chan,
     raised |-> FALSE]

\* the deactivation a counter at its limit triggers
Deactivate(cfg, class) ==
    IF class = "role"
    THEN [cfg EXCEPT !.realm_offline_role = FALSE]
    ELSE [cfg EXCEPT !.playerlist_chan = FALSE, !.live_playerlist = FALSE]

\* record_failure: the counter of the class goes up; at the limit the
\* destination is deactivated (the flags are cleared on the object the
\* listener holds and in the row of the guild) and the counter cleared
EventuallyInvalidate(st, g, class) ==
    LET n == st.counts[g][class] + 1
    IN  IF n >= Limit(class)
        THEN [st EXCEPT !.counts[g][class] = 0,
                        !.fetched[g] = Deactivate(@, class),
                        !.configs[g] = IF @ = NoConfig THEN @
                                       ELSE Deactivate(@, class)]
        ELSE [st EXCEPT !.counts[g][class] = n]

\* record_success: the counter of the class is cleared
RecordSuccess(st, g, class) == [st EXCEPT !.counts[g][class] = 0]

\* invalidate_premium: the entitlement-lost deactivation of the guild whose
\* configuration the listener holds
InvalidatePremium(st, g) ==
    LET r == st.fetched[g].realm_id
    IN  [st EXCEPT !.fetched[g].live_playerlist = FALSE,
                   !.configs[g] = IF @ = NoConfig THEN @
                                  ELSE [@ EXCEPT !.live_playerlist = FALSE],
                   !.store = [x \in Realms |-> IF x = r THEN @[x] \ {g} ELSE @[x]]]

\* config.save(): the row of the guild takes every field of the object the
\* listener holds; a row deleted meanwhile stays deleted
Save(st, g) ==
    [st EXCEPT !.configs[g] = IF @ = NoConfig THEN @ ELSE st.fetched[g]]

\* fetch_playerlist_channel or chan.send raised HTTPException for guild g: a
\* failed delivery, as the handlers count it
NoteFailure(st, g) ==
    [st EXCEPT !.calls[g] = IF @ < ChannelLimit THEN @ + 1 ELSE @]

\* the listener calls the coroutine it awaits next: a delivery to guild g is
\* attempted once fetch_playerlist_channel is called for it
Calls(st, g, await) ==
    IF await = "fetch_playerlist_channel"
    THEN [st EXCEPT !.attempted = @ \cup {g}]
    ELSE st

\* the await can come to d: fetch_playerlist_channel is called for a cached
\* guild only, and chan.send returns or raises HTTPException
Comes(await, d) ==
    CASE await = "fetch_playerlist_channel" -> d # "no_guild"
      [] await = "send" -> d \in {"ok", "http_error"}
      [] OTHER -> TRUE

\* the calls counter starts again once the guild has been deactivated
CloseStreak(st, g) ==
    IF st.fetched[g].playerlist_chan THEN st ELSE [st EXCEPT !.calls[g] = 0]

\* what a step that leaves the loop state st writes to the bot's tables and
\* caches
Written(st) ==
    /\ configs' = st.configs
    /\ live_playerlist_store' = st.store
    /\ invalid_count' = st.counts
    /\ fail_calls' = st.calls
    /\ warned' = st.warned
    /\ attempted' = st.attempted
    /\ delivered' = st.delivered

\* the listener task t with the local variables of the loop state st
Carry(t, st) ==
    [t EXCEPT !.fetched = st.fetched, !.attempted = st.attempted,
              !.delivered = st.delivered,
              !.no_playerlist_chan = st.no_playerlist_chan]

\* continue: the guilds the loop has still to go through after this one
Rest(order, st) == Tail(order)

\* the queue after the step of the listener at position i that ended the
\* iteration for the guild at the head of its order
AfterIteration(queue, i, st) ==
    LET t == Carry(queue[i], st)
        rest == Rest(t.order, st)
    IN  IF st.raised THEN AfterListener(queue, i, TRUE)
        ELSE IF rest = <<>> THEN AfterListener(queue, i, FALSE)
        ELSE [queue EXCEPT ![i] = [t EXCEPT !.order = rest]]

----------------------------------------------------------------------------
\* on_live_playerlist_send: the loop over live_playerlist_store[realm].copy().

\* GuildConfig.get(guild_id=g) returns, and the code runs on to its next
\* await: a guild with premium code and without channel has its live flag
\* cleared on the object and leaves the live subscribers at once
LiveGet(st, r, g) ==
    LET config == st.configs[g]
    IN  IF config = NoConfig THEN [st EXCEPT !.raised = TRUE]
        ELSE IF config.premium_code /\ ~config.playerlist_chan
             THEN [st EXCEPT !.fetched[g] = [config EXCEPT !.live_playerlist = FALSE],
                             !.store[r] = @ \ {g}]
        ELSE [st EXCEPT !.fetched[g] = config]

\* a loop whose except ValueError branch goes to the policy as well
LiveNextCountsValueError(st, g, await, d) ==
    LET config == st.fetched[g]
    IN  IF st.raised THEN "raise"
        ELSE CASE await = "get" ->
                    IF ~config.premium_code THEN "invalidate_premium"
                    ELSE IF ~config.playerlist_chan THEN "save"
                    ELSE IF d = "no_guild" THEN "continue"
                    ELSE "fetch_playerlist_channel"
               [] await = "fetch_playerlist_channel" ->
                    IF d \in {"value_error", "fetch_http_error"}
                    THEN "eventually_invalidate"
                    ELSE "send"
               [] await = "send" ->
                    IF d = "ok" THEN "continue" ELSE "eventually_invalidate"
               [] OTHER -> "continue"

\* the await the listener comes to next in its iteration for guild g, once
\* the one it stands at has come to d: "continue" when the iteration is over,
\* "raise" when the exception leaves the listener
LiveNext(st, g, await, d) ==
    LET config == st.fetched[g]
    IN  IF st.raised THEN "raise"
        ELSE CASE await = "get" ->
                    IF ~config.premium_code THEN "invalidate_premium"
                    ELSE IF ~config.playerlist_chan THEN "save"
                    ELSE IF d = "no_guild" THEN "continue"
                    ELSE "fetch_playerlist_channel"
               [] await = "fetch_playerlist_channel" ->
                    CASE d = "value_error" -> "continue"
                      [] d = "fetch_http_error" -> "eventually_invalidate"
                      [] OTHER -> "send"
               [] await = "send" ->
                    IF d = "ok" THEN "continue" ELSE "eventually_invalidate"
               [] OTHER -> "continue"

\* a loop body that counts a lost premium code as a failed delivery
LiveBodyCountsPremium(st, r, g, await, d) ==
    CASE await = "get" -> LiveGet(st, r, g)
      [] await = "invalidate_premium" ->
             EventuallyInvalidate(InvalidatePremium(st, g), g, "channel")
      [] await = "save" -> Save(st, g)
      [] await = "fetch_playerlist_channel" ->
             IF d = "fetch_http_error" THEN NoteFailure(st, g) ELSE st
      [] await = "send" ->
             IF d = "ok" THEN [st EXCEPT !.delivered = @ \cup {g}]
             ELSE NoteFailure(st, g)
      [] await = "eventually_invalidate" ->
             CloseStreak(EventuallyInvalidate(st, g, "channel"), g)

\* a loop body that does not save the configuration of a guild without channel
LiveBodySkipsNoChannel(st, r, g, await, d) ==
    CASE await = "get" -> LiveGet(st, r, g)
      [] await = "invalidate_premium" -> InvalidatePremium(st, g)
      [] await = "save" -> st
      [] await = "fetch_playerlist_channel" ->
             IF d = "fetch_http_error" THEN NoteFailure(st, g) ELSE st
      [] await = "send" ->
             IF d = "ok" THEN [st EXCEPT !.delivered = @ \cup {g}]
             ELSE NoteFailure(st, g)
      [] await = "eventually_invalidate" ->
             CloseStreak(EventuallyInvalidate(st, g, "channel"), g)

\* the iteration for guild g from the return of the await the listener
\* stands at, which comes to d, up to the call of the next one: the effect of
\* the coroutine that returns, and the code that follows it
LiveBody(st, r, g, await, d) ==
    CASE await = "get" -> LiveGet(st, r, g)
      [] await = "invalidate_premium" -> InvalidatePremium(st, g)
      [] await = "save" -> Save(st, g)
      [] await = "fetch_playerlist_channel" ->
             IF d = "fetch_http_error" THEN NoteFailure(st, g) ELSE st
      [] await = "send" ->
             IF d = "ok" THEN [st EXCEPT !.delivered = @ \cup {g}]
             ELSE NoteFailure(st, g)
      [] await = "eventually_invalidate" ->
             CloseStreak(EventuallyInvalidate(st, g, "channel"), g)

\* one step of the listener of a change event, from the await it stands at
\* to the next one; DS: the delivery outcomes taken into account
on_live_playerlist_send(DS) ==
    /\ \E i \in 1..Len(events) :
        LET t == events[i]
            r == t.realm_id
            st0 == LoopState(configs, live_playerlist_store, invalid_count,
                             fail_calls, warned, t)
        IN  /\ t.listener = "on_live_playerlist_send"
            /\ MayStep(events, i)
            /\ CASE t.pc = "dispatched" ->
                      \* the session objects are built, with their identifiers
                      \E players \in Orders(t.joined \cup t.left) :
                      LET res == ResolveAll(uuid_cache, next_uuid, r, players)
                      IN  /\ res.next <= MaxUuid
                          /\ uuid_cache' = res.cache
                          /\ next_uuid' = res.next
                          /\ Written(st0)
                          /\ events' = [events EXCEPT ![i].pc = "gamertags"]
                 [] t.pc = "gamertags" ->
                      \* fill_in_gamertags_for_sessions returns; the loop starts
                      /\ UNCHANGED <<uuid_cache, next_uuid>>
                      /\ Written(st0)
                      /\ \E order \in Orders(live_playerlist_store[r]) :
                           events' =
                             IF order = <<>> THEN AfterListener(events, i, FALSE)
                             ELSE [events EXCEPT ![i] =
                                     [t EXCEPT !.pc = "get", !.order = order,
                                               !.guilds = live_playerlist_store[r]]]
                 [] OTHER ->
                      \E d \in DS :
                        LET g == Head(t.order)
                            st1 == LiveBody(st0, r, g, t.pc, d)
                            await == LiveNext(st1, g, t.pc, d)
                            st == Calls(st1, g, await)
                        IN  /\ Comes(t.pc, d)
                            /\ UNCHANGED <<uuid_cache, next_uuid>>
                            /\ Written(st)
                            /\ events' =
                                 IF await \in {"continue", "raise"}
                                 THEN AfterIteration(
                                          [events EXCEPT ![i].pc = "get"], i, st)
                                 ELSE [events EXCEPT ![i] =
                                         [Carry(t, st) EXCEPT !.pc = await]]
    /\ UNCHANGED <<now, epoch, test_mode, online_cache, offline_realms, pl_sem,
                   inflight, sessions, missing_realm, recovered, down_streak,
                   dropped, last_data>>

----------------------------------------------------------------------------
\* on_playerlist_finish: the rows of every container are upserted, one
\* container after the other.

on_playerlist_finish ==
    /\ \E i \in 1..Len(events) :
        LET t == events[i]
        IN  /\ t.listener = "on_playerlist_finish"
            /\ MayStep(events, i)
            /\ CASE t.pc = "dispatched" ->
                      /\ UNCHANGED sessions
                      /\ events' = IF t.containers = <<>>
                                   THEN AfterListener(events, i, FALSE)
                                   ELSE [events EXCEPT ![i].pc = "bulk_create"]
                 [] t.pc = "bulk_create" ->
                      LET container == Head(t.containers)
                      IN  /\ sessions' = BulkCreate(sessions,
                                                    container.player_sessions,
                                                    container.fields)
                          /\ events' =
                               IF Tail(t.containers) = <<>>
                               THEN AfterListener(events, i, FALSE)
                               ELSE [events EXCEPT
                                       ![i].containers = Tail(t.containers)]
    /\ UNCHANGED <<now, epoch, test_mode, online_cache, uuid_cache, next_uuid,
                   offline_realms, live_playerlist_store, pl_sem, inflight,
                   missing_realm, configs, invalid_count, attempted, delivered,
                   fail_calls, recovered, down_streak, dropped, warned,
                   last_data>>

----------------------------------------------------------------------------
\* realm_down: the live playerlist goes out first, then the offline notices.

\* GuildConfig.filter(realm_id=r), as read at one moment: the objects
FetchConfigs(table, r) ==
    [g \in Guilds |-> IF g \in ConfigsOf(table, r) THEN table[g] ELSE NoConfig]

\* what guild.fetch_role can come to: a role that can be pinged, no role or
\* one that cannot be pinged, an HTTPException
Roles == {"pingable", "unpingable", "raises"}

\* the await the listener comes to next in its iteration for guild g, once
\* the one it stands at has come to d (role: what fetch_role came to):
\* "notify" stands for the head of the loop, "continue" for the end of the
\* iteration, "raise" for an exception that leaves the listener
RealmDownNext(st, g, await, d, role) ==
    LET config == st.fetched[g]
    IN  IF st.raised THEN "raise"
        ELSE CASE await = "notify" ->
                    IF ~config.playerlist_chan \/ ~config.realm_offline_role
                    THEN "continue"
                    ELSE IF d = "no_guild" THEN "continue"
                    ELSE "fetch_role"
               [] await = "fetch_role" -> "fetch_playerlist_channel"
               [] await = "fetch_playerlist_channel" ->
                    CASE d = "value_error" -> "continue"
                      [] d = "fetch_http_error" -> "eventually_invalidate"
                      [] OTHER -> IF role = "pingable" THEN "send"
                                  ELSE "eventually_invalidate_realm_offline"
               [] await = "eventually_invalidate_realm_offline" -> "send"
               [] await = "send" ->
                    IF d = "ok" THEN "continue" ELSE "eventually_invalidate"
               [] OTHER -> "continue"

\* the iteration of the loop over event.configs for guild g from the return
\* of the await the listener stands at, which comes to d, up to the call of
\* the next one; guild.fetch_role is awaited outside the try statement, so
\* its exception leaves the listener
RealmDownBody(st, g, await, d, role) ==
    CASE await = "fetch_role" ->
             IF role = "raises" THEN [st EXCEPT !.raised = TRUE] ELSE st
      [] await = "fetch_playerlist_channel" ->
             IF d = "fetch_http_error" THEN NoteFailure(st, g) ELSE st
      [] await = "eventually_invalidate_realm_offline" ->
             EventuallyInvalidate(st, g, "role")
      [] await = "send" ->
             IF d = "ok" THEN [st EXCEPT !.delivered = @ \cup {g}]
             ELSE NoteFailure(st, g)
      [] await = "eventually_invalidate" ->
             CloseStreak(EventuallyInvalidate(st, g, "channel"), g)
      [] OTHER -> st

\* a handler that sends the live playerlist whether or not a guild reads it
LiveWanted(store, r) == TRUE

\* if self.bot.live_playerlist_store[event.realm_id]
WantsLive(store, r) == store[r] # {}

\* one step of the listener of a realm-down event, from the await it stands
\* at to the next one; DS, RS: the outcomes of the delivery and of
\* guild.fetch_role taken into account
realm_down(DS, RS) ==
    /\ \E i \in 1..Len(events) :
        LET t == events[i]
            r == t.realm_id
            st0 == LoopState(configs, live_playerlist_store, invalid_count,
                             fail_calls, warned, t)
        IN  /\ t.listener = "realm_down"
            /\ MayStep(events, i)
            /\ CASE t.pc = "dispatched" ->
                      /\ Written(st0)
                      /\ events' =
                           IF WantsLive(live_playerlist_store, r)
                           THEN Dispatch([events EXCEPT ![i].pc = "filter"],
                                         LivePlayerlistSend(r, {}, t.left, t.timestamp))
                           ELSE [events EXCEPT ![i].pc = "filter"]
                      /\ Len(events') <= MaxEvents
                 [] t.pc = "filter" ->
                      \* event.configs is read
                      /\ Written(st0)
                      /\ \E order \in Orders(ConfigsOf(configs, r)) :
                           events' =
                             IF order = <<>> THEN AfterListener(events, i, FALSE)
                             ELSE [events EXCEPT ![i] =
                                     [t EXCEPT !.pc = "notify", !.order = order,
                                               !.guilds = ConfigsOf(configs, r),
                                               !.fetched = FetchConfigs(configs, r)]]
                 [] OTHER ->
                      \E d \in DS :
                      \E role \in IF t.pc = "fetch_role" THEN RS ELSE {t.role} :
                        LET g == Head(t.order)
                            st1 == RealmDownBody(st0, g, t.pc, d, role)
                            await == RealmDownNext(st1, g, t.pc, d, role)
                            st == Calls(st1, g, await)
                        IN  /\ Comes(t.pc, d)
                            /\ Written(st)
                            /\ events' =
                                 IF await \in {"continue", "raise"}
                                 THEN AfterIteration(
                                          [events EXCEPT ![i].pc = "notify",
                                                         ![i].role = "pingable"],
                                          i, st)
                                 ELSE [events EXCEPT ![i] =
                                         [Carry(t, st) EXCEPT !.pc = await,
                                                              !.role = role]]
    /\ UNCHANGED <<now, epoch, test_mode, online_cache, uuid_cache, next_uuid,
                   offline_realms, pl_sem, inflight, sessions, missing_realm,
                   recovered, down_streak, dropped, last_data>>

----------------------------------------------------------------------------
\* warning_missing_playerlist: the staleness warning of a realm goes to every
\* guild linked to it; the realm is left when no guild has a channel.

\* what self.bot.realms.leave_realm can come to: the realm is left, the source
\* answers 404, or it answers another error
Leaves == {"left", "not_found", "error"}

UnlinkedConfig(config) ==
    [config EXCEPT !.realm_id = NoRealm, !.live_playerlist = FALSE]

\* if all(no_playerlist_chan) or not no_playerlist_chan
AllNoChan(flags) == \A i \in 1..Len(flags) : flags[i]

\* the await the listener comes to next in its iteration for guild g, once
\* the one it stands at has come to d: "warn" stands for the head of the
\* loop, "continue" for the end of the iteration, "raise" for an exception
\* that leaves the listener
WarnNext(st, g, await, d) ==
    LET config == st.fetched[g]
    IN  IF st.raised THEN "raise"
        ELSE CASE await = "warn" ->
                    IF ~config.playerlist_chan THEN "save"
                    ELSE IF ~config.warning_notifications \/ d = "no_guild"
                    THEN "continue"
                    ELSE "eventually_invalidate"
               [] await = "eventually_invalidate" -> "fetch_playerlist_channel"
               [] await = "fetch_playerlist_channel" ->
                    IF d = "value_error" THEN "continue" ELSE "send"
               [] OTHER -> "continue"

\* the head of the iteration for guild g: a guild without channel is
\* unlinked on the object the listener holds and leaves the live subscribers
\* (club_id and fetch_devices are not followed)
WarnHead(st, g) ==
    LET config == st.fetched[g]
    IN  IF ~config.playerlist_chan
        THEN [st EXCEPT
                !.store = IF config.realm_id # NoRealm /\ config.live_playerlist
                          THEN [x \in Realms |->
                                   IF x = config.realm_id THEN @[x] \ {g}
                                   ELSE @[x]]
                          ELSE @,
                !.fetched[g] = UnlinkedConfig(@)]
        ELSE [st EXCEPT !.no_playerlist_chan = Append(@, FALSE)]

\* config.save() of the unlinked configuration returns
WarnSave(st, g) ==
    Save([st EXCEPT !.no_playerlist_chan = Append(@, TRUE)], g)

\* the iteration of the loop over event.configs for guild g from the return
\* of the await the listener stands at, which comes to d, up to the call of
\* the next one; an HTTPException of fetch_playerlist_channel is not caught,
\* one of chan.send is suppressed
WarnBody(st, g, await, d) ==
    CASE await = "warn" -> WarnHead(st, g)
      [] await = "save" -> WarnSave(st, g)
      [] await = "eventually_invalidate" ->
             CloseStreak(EventuallyInvalidate(st, g, "missing"), g)
      [] await = "fetch_playerlist_channel" ->
             IF d = "fetch_http_error" THEN [st EXCEPT !.raised = TRUE] ELSE st
      [] await = "send" ->
             IF d = "ok" THEN [st EXCEPT !.delivered = @ \cup {g},
                                         !.warned = @ \cup {g}]
             ELSE st

\* the queue after the step of the staleness listener at position i that
\* ended the iteration for the guild at the head of its order: after the last
\* guild the realm is left when no guild had a channel
AfterWarning(queue, i, st) ==
    IF ~st.raised /\ Rest(queue[i].order, st) = <<>>
          /\ AllNoChan(st.no_playerlist_chan)
    THEN [queue EXCEPT ![i] =
            [Carry(queue[i], st) EXCEPT !.pc = "leave_realm", !.order = <<>>]]
    ELSE AfterIteration(queue, i, st)

\* one step of the listener of a staleness signal, from the await it stands
\* at to the next one; DS, LS: the delivery and leave outcomes taken into
\* account
warning_missing_playerlist(DS, LS) ==
    /\ \E i \in 1..Len(events) :
        LET t == events[i]
            r == t.realm_id
            st0 == LoopState(configs, live_playerlist_store, invalid_count,
                             fail_calls, warned, t)
        IN  /\ t.listener = "warning_missing_playerlist"
            /\ MayStep(events, i)
            /\ CASE t.pc = "dispatched" ->
                      /\ Written(st0)
                      /\ UNCHANGED dropped
                      /\ events' = [events EXCEPT ![i].pc = "filter"]
                 [] t.pc = "filter" ->
                      \* event.configs is read
                      /\ Written(st0)
                      /\ UNCHANGED dropped
                      /\ \E order \in Orders(ConfigsOf(configs, r)) :
                           events' = [events EXCEPT ![i] =
                               [t EXCEPT !.pc = IF order = <<>> THEN "leave_realm"
                                                ELSE "warn",
                                         !.order = order,
                                         !.guilds = ConfigsOf(configs, r),
                                         !.fetched = FetchConfigs(configs, r)]]
                 [] t.pc = "leave_realm" ->
                      \E l \in LS :
                        /\ Written(st0)
                        /\ dropped' = IF l = "left" THEN dropped \cup {r} ELSE dropped
                        /\ events' = AfterListener(events, i, l = "error")
                 [] OTHER ->
                      \E d \in DS :
                        LET g == Head(t.order)
                            st1 == WarnBody(st0, g, t.pc, d)
                            await == WarnNext(st1, g, t.pc, d)
                            st == Calls(st1, g, await)
                        IN  /\ Comes(t.pc, d)
                            /\ Written(st)
                            /\ UNCHANGED dropped
                            /\ events' =
                                 IF await \in {"continue", "raise"}
                                 THEN AfterWarning(
                                          [events EXCEPT ![i].pc = "warn"], i, st)
                                 ELSE [events EXCEPT ![i] =
                                         [Carry(t, st) EXCEPT !.pc = await]]
    /\ UNCHANGED <<now, epoch, test_mode, online_cache, uuid_cache, next_uuid,
                   offline_realms, pl_sem, inflight, sessions, missing_realm,
                   recovered, down_streak, last_data>>

----------------------------------------------------------------------------
\* on_error: the exception of a listener is reported.

on_error ==
    /\ \E i \in 1..Len(events) :
        /\ events[i].listener = "on_error"
        /\ MayStep(events, i)
        /\ events' = AfterListener(events, i, FALSE)
    /\ UNCHANGED <<now, epoch, test_mode, online_cache, uuid_cache, next_uuid,
                   offline_realms, live_playerlist_store, pl_sem, inflight,
                   sessions, missing_realm, configs, invalid_count, attempted,
                   delivered, fail_calls, recovered, down_streak, dropped, warned,
                   last_data>>

----------------------------------------------------------------------------
\* The guild events (the extension that listens to them is not loaded in
\* test mode).

\* the bot is removed from guild g; RS: the values of bot.is_ready taken into
\* account
guild_left(g, RS) ==
    /\ ~test_mode
    /\ Len(events) < MaxEvents
    /\ \E ready \in RS : events' = Dispatch(events, GuildLeft(g, ready))
    /\ UNCHANGED <<now, epoch, test_mode, online_cache, uuid_cache, next_uuid,
                   offline_realms, live_playerlist_store, pl_sem, inflight,
                   sessions, missing_realm, configs, invalid_count, attempted,
                   delivered, fail_calls, recovered, down_streak, dropped, warned,
                   last_data>>

\* the bot is added to guild g; RS, BS: the values of bot.is_ready and of
\* the guild's membership in bot.blacklist taken into account
guild_join(g, RS, BS) ==
    /\ ~test_mode
    /\ Len(events) < MaxEvents
    /\ \E ready \in RS : \E blacklisted \in BS :
          events' = Dispatch(events, GuildJoin(g, ready, blacklisted))
    /\ UNCHANGED <<now, epoch, test_mode, online_cache, uuid_cache, next_uuid,
                   offline_realms, live_playerlist_store, pl_sem, inflight,
                   sessions, missing_realm, configs, invalid_count, attempted,
                   delivered, fail_calls, recovered, down_streak, dropped, warned,
                   last_data>>

\* GuildConfig.count(realm_id=r, guild_id != g)
OtherConfigs(table, g, r) ==
    Cardinality({h \in Guilds \ {g} : table[h] # NoConfig /\ table[h].realm_id = r})

\* PlayerSession.delete_many(realm_id=r)
DeleteSessions(table, r) ==
    [id \in Ids |-> IF table[id] # NoRow /\ table[id].realm_id = r THEN NoRow
                    ELSE table[id]]

\* one step of the listener of a guild-left event; LS: the leave outcomes
\* taken into account (a MicrosoftAPIException of leave_realm is suppressed)
on_guild_left(LS) ==
    /\ \E i \in 1..Len(events) :
        LET t == events[i]
            g == t.guild_id
            config == t.fetched[g]
        IN  /\ t.listener = "on_guild_left"
            /\ MayStep(events, i)
            /\ CASE t.pc = "dispatched" ->
                      /\ UNCHANGED <<sessions, dropped, configs>>
                      /\ events' = IF t.ready
                                   THEN [events EXCEPT ![i].pc = "find_unique"]
                                   ELSE AfterListener(events, i, FALSE)
                 [] t.pc = "find_unique" ->
                      /\ UNCHANGED <<sessions, dropped, configs>>
                      /\ events' =
                           IF configs[g] = NoConfig
                           THEN AfterListener(events, i, FALSE)
                           ELSE [events EXCEPT ![i] =
                                   [t EXCEPT !.fetched[g] = configs[g],
                                             !.pc = IF configs[g].realm_id # NoRealm
                                                    THEN "count" ELSE "delete"]]
                 [] t.pc = "count" ->
                      LET n == OtherConfigs(configs, g, config.realm_id)
                      IN  /\ UNCHANGED <<sessions, dropped, configs>>
                          /\ events' = [events EXCEPT ![i] =
                                 [t EXCEPT !.count = n,
                                           !.pc = IF n = 1 THEN "delete_many"
                                                  ELSE "delete"]]
                 [] t.pc = "delete_many" ->
                      /\ sessions' = DeleteSessions(sessions, config.realm_id)
                      /\ UNCHANGED <<dropped, configs>>
                      /\ events' = [events EXCEPT ![i].pc = "leave_realm"]
                 [] t.pc = "leave_realm" ->
                      \E l \in LS :
                        /\ dropped' = IF l = "left"
                                      THEN dropped \cup {config.realm_id}
                                      ELSE dropped
                        /\ UNCHANGED <<sessions, configs>>
                        /\ events' = [events EXCEPT ![i].pc = "delete"]
                 [] t.pc = "delete" ->
                      /\ configs' = [configs EXCEPT ![g] = NoConfig]
                      /\ UNCHANGED <<sessions, dropped>>
                      /\ events' = AfterListener(events, i, FALSE)
    /\ UNCHANGED <<now, epoch, test_mode, online_cache, uuid_cache, next_uuid,
                   offline_realms, live_playerlist_store, pl_sem, inflight,
                   missing_realm, invalid_count, attempted, delivered, fail_calls,
                   recovered, down_streak, warned, last_data>>

\* GuildConfig.create({"guild_id": g}): every other column at its default
NewConfig(g) == GuildConfig(g, NoRealm, FALSE, FALSE, FALSE, TRUE, FALSE)

\* one step of the listener of a guild-join event; creating a row that
\* exists raises
on_guild_join ==
    /\ \E i \in 1..Len(events) :
        LET t == events[i]
            g == t.guild_id
        IN  /\ t.listener = "on_guild_join"
            /\ MayStep(events, i)
            /\ CASE t.pc = "dispatched" ->
                      /\ UNCHANGED configs
                      /\ events' =
                           IF ~t.ready THEN AfterListener(events, i, FALSE)
                           ELSE [events EXCEPT ![i].pc =
                                   IF t.blacklisted THEN "leave_guild" ELSE "count"]
                 [] t.pc = "leave_guild" ->
                      /\ UNCHANGED configs
                      /\ events' = AfterListener(events, i, FALSE)
                 [] t.pc = "count" ->
                      LET n == IF configs[g] = NoConfig THEN 0 ELSE 1
                      IN  /\ UNCHANGED configs
                          /\ events' =
                               IF n # 0 THEN AfterListener(events, i, FALSE)
                               ELSE [events EXCEPT ![i].pc = "create"]
                 [] t.pc = "create" ->
                      /\ configs' = IF configs[g] = NoConfig
                                    THEN [configs EXCEPT ![g] = NewConfig(g)]
                                    ELSE configs
                      /\ events' = AfterListener(events, i, configs[g] # NoConfig)
    /\ UNCHANGED <<now, epoch, test_mode, online_cache, uuid_cache, next_uuid,
                   offline_realms, live_playerlist_store, pl_sem, inflight,
                   sessions, missing_realm, invalid_count, attempted, delivered,
                   fail_calls, recovered, down_streak, dropped, warned,
                   last_data>>

----------------------------------------------------------------------------
\* Changes to a guild's configuration made outside the pipeline.

\* the premium code of guild g ends
premium_ends(g) ==
    /\ configs[g] # NoConfig
    /\ configs[g].premium_code
    /\ configs' = [configs EXCEPT ![g].premium_code = FALSE]
    /\ UNCHANGED <<now, epoch, test_mode, online_cache, uuid_cache, next_uuid,
                   offline_realms, live_playerlist_store, pl_sem, inflight, events,
                   sessions, missing_realm, invalid_count, attempted, delivered,
                   fail_calls, recovered, down_streak, dropped, warned,
                   last_data>>

\* the playerlist channel of guild g is unset
channel_unset(g) ==
    /\ configs[g] # NoConfig
    /\ configs[g].playerlist_chan
    /\ configs' = [configs EXCEPT ![g].playerlist_chan = FALSE]
    /\ UNCHANGED <<now, epoch, test_mode, online_cache, uuid_cache, next_uuid,
                   offline_realms, live_playerlist_store, pl_sem, inflight, events,
                   sessions, missing_realm, invalid_count, attempted, delivered,
                   fail_calls, recovered, down_streak, dropped, warned,
                   last_data>>
----------------------------------------------------------------------------
\* The initial state: a first start, on empty session and marker tables, with
\* every guild linked to a realm.

InitConfigs ==
    {c \in [Guilds -> [guild_id : Guilds, realm_id : Realms, premium_code : {TRUE},
                       playerlist_chan : {TRUE}, live_playerlist : BOOLEAN,
                       warning_notifications : {TRUE},
                       realm_offline_role : {TRUE}]] :
        \A g \in Guilds : c[g].guild_id = g}

\* the state after construction, t minutes after the epoch of the clock
InitAt(t) ==
    /\ now = t
    /\ epoch = 0
    /\ test_mode \in BOOLEAN
    /\ next_uuid = 0
    /\ sessions = [id \in Ids |-> NoRow]
    /\ missing_realm = {}
    /\ configs \in InitConfigs
    /\ invalid_count = [g \in Guilds |-> [c \in FailureClasses |-> 0]]
    /\ attempted = {}
    /\ delivered = {}
    /\ fail_calls = [g \in Guilds |-> 0]
    /\ recovered = {}
    /\ down_streak = [r \in Realms |-> 0]
    /\ dropped = {}
    /\ warned = {}
    /\ last_data = [r \in Realms |-> 0]
    /\ online_cache = SeedOnlineCache(sessions)
    /\ uuid_cache \in SeedUuidCaches(sessions)
    /\ offline_realms = SeedOfflineRealms(missing_realm, test_mode)
    /\ live_playerlist_store = SeedLiveStore(configs)
    /\ pl_sem = PlSemValue
    /\ inflight = [r \in PollTasks |-> <<>>]
    /\ events = <<>>

Init == InitAt(0)

Next ==
    \/ \E r \in Realms : \E out \in Outcomes(r) : StartPoll(r, out)
    \/ \E r \in Realms : FinishPoll(r)
    \/ on_playerlist_finish
    \/ on_live_playerlist_send(Deliveries)
    \/ realm_down(Deliveries, Roles)
    \/ warning_missing_playerlist(Deliveries, Leaves)
    \/ on_error
    \/ \E g \in Guilds : guild_left(g, BOOLEAN)
    \/ \E g \in Guilds : guild_join(g, BOOLEAN, BOOLEAN)
    \/ on_guild_left(Leaves)
    \/ on_guild_join
    \/ \E g \in Guilds : premium_ends(g)
    \/ \E g \in Guilds : channel_unset(g)
    \/ Tick
    \/ HalfDayPasses
    \/ start(BOOLEAN)

Spec == Init /\ [][Next]_vars

----------------------------------------------------------------------------
\* The presence pipeline on its own: both realms polled, every delivery
\* succeeding, the clock standing still.

\* guild 1 reads realm 1 live; guild 2 is linked to realm 2 without live updates
PresenceConfigs ==
    [g \in Guilds |-> GuildConfig(g, g, TRUE, TRUE, g = 1, TRUE, TRUE)]

\* realm 1 answers anything; realm 2 has player 2 online, or is unreachable
PresenceOutcomes(r) ==
    IF r = 1 THEN Outcomes(r) ELSE {Snapshot({2}), Unreachable}

InitPresence == Init /\ ~test_mode /\ configs = PresenceConfigs

NextPresence ==
    \/ \E r \in Realms : \E out \in PresenceOutcomes(r) : StartPollWhen(r, out, Idle)
    \/ ComesBack(1)
    \/ \E r \in Realms : FinishPoll(r)
    \/ on_playerlist_finish
    \/ on_live_playerlist_send({"ok"})
    \/ realm_down({"ok"}, {"pingable"})

SpecPresence == InitPresence /\ [][NextPresence]_vars

----------------------------------------------------------------------------
\* Restarts: realm 1 answers its polls with player 2, or with both players,
\* while the clock runs and the process is started again, in either mode.

RecoveryOutcomes == {Snapshot({2}), Snapshot({1, 2})}

NextRecovery ==
    \/ \E out \in RecoveryOutcomes : StartPollWhen(1, out, Idle)
    \/ FinishPoll(1)
    \/ on_playerlist_finish
    \/ on_live_playerlist_send({"ok"})
    \/ Tick
    \/ start(BOOLEAN)

SpecRecovery == InitPresence /\ [][NextRecovery]_vars

----------------------------------------------------------------------------
\* The admission gate: a poll cycle for every realm of the rotation, the
\* source answering each with a transient error.

NextGate ==
    \/ \E r \in PollTasks : StartPoll(r, Transient)
    \/ \E r \in PollTasks : FinishPoll(r)

SpecGate == InitPresence /\ [][NextGate]_vars

----------------------------------------------------------------------------
\* Deliveries failing: both guilds read realm 1 live, realm 1 answers its
\* polls with player 1 or is unreachable, and a delivery can come to
\* anything.

DeliveryConfigs ==
    [g \in Guilds |-> GuildConfig(g, 1, TRUE, TRUE, TRUE, TRUE, TRUE)]

InitDelivery == Init /\ ~test_mode /\ configs = DeliveryConfigs

DeliveryOutcomes == {Snapshot({1}), Unreachable}

NextDelivery ==
    \/ \E out \in DeliveryOutcomes : StartPollWhen(1, out, Idle)
    \/ FinishPoll(1)
    \/ on_playerlist_finish
    \/ on_live_playerlist_send(Deliveries)
    \/ realm_down(Deliveries, {"pingable"})

SpecDelivery == InitDelivery /\ [][NextDelivery]_vars

----------------------------------------------------------------------------
\* The offline state machine over restarts: realm 1 is reachable or not, and
\* the process is started again, in either mode.

NextOffline ==
    \/ \E out \in {Unreachable, Transient, Snapshot({1}), Snapshot({})} :
          StartPollWhen(1, out, ShortQueue)
    \/ FinishPoll(1)
    \/ on_playerlist_finish
    \/ on_live_playerlist_send({"ok"})
    \/ realm_down({"ok"}, {"pingable"})
    \/ start(BOOLEAN)

SpecOffline == InitPresence /\ [][NextOffline]_vars

----------------------------------------------------------------------------
\* Guilds going and coming: both guilds read realm 1 live, guild 1 can remove
\* the bot and add it again while realm 1 is polled; realm 2, which no guild
\* reads, is polled as well.

ChurnOutcomes(r) == IF r = 1 THEN {Snapshot({1}), Unreachable} ELSE {Unreachable}

NextChurn ==
    \/ \E r \in Realms : \E out \in ChurnOutcomes(r) : StartPollWhen(r, out, Idle)
    \/ \E r \in Realms : FinishPoll(r)
    \/ on_playerlist_finish
    \/ on_live_playerlist_send({"ok"})
    \/ realm_down({"ok"}, {"pingable"})
    \/ on_error
    \/ guild_left(1, {TRUE})
    \/ on_guild_left({"left"})
    \/ guild_join(1, {TRUE}, {FALSE})
    \/ on_guild_join

SpecChurn == InitDelivery /\ [][NextChurn]_vars

----------------------------------------------------------------------------
\* Listeners raising: guild 1 reads realm 1 live and has an offline role,
\* guild 2 reads realm 2; the bot has run for a day and a minute without data
\* of realm 1, which is polled and answers with player 1, with nobody or not
\* at all; guild 1 removes the bot and adds it again, any number of times and
\* before the event before has been handled; fetching the offline role can
\* fail and so can leaving the realm, fetching the channel of a warning does.

BusConfigs ==
    [g \in Guilds |-> GuildConfig(g, g, TRUE, TRUE, TRUE, TRUE, TRUE)]

BusOutcomes == {Snapshot({1}), Snapshot({}), Unreachable}

InitBus == InitAt(StaleMinutes + 1) /\ ~test_mode /\ configs = BusConfigs

NextBus ==
    \/ \E out \in BusOutcomes : StartPollWhen(1, out, Idle)
    \/ FinishPoll(1)
    \/ on_playerlist_finish
    \/ on_live_playerlist_send({"ok"})
    \/ realm_down({"ok"}, {"pingable", "raises"})
    \/ warning_missing_playerlist({"fetch_http_error"}, {"left", "error"})
    \/ on_error
    \/ guild_left(1, {TRUE})
    \/ on_guild_left({"left"})
    \/ guild_join(1, {TRUE}, {FALSE})
    \/ on_guild_join

SpecBus == InitBus /\ [][NextBus]_vars

----------------------------------------------------------------------------
\* Configurations changing: both guilds read realm 1 live; guild 1 can lose
\* its premium code or its channel at any moment while realm 1 is polled and
\* deliveries succeed or fail.

NextConfig ==
    \/ \E out \in DeliveryOutcomes : StartPollWhen(1, out, Idle)
    \/ FinishPoll(1)
    \/ on_playerlist_finish
    \/ on_live_playerlist_send({"ok", "http_error"})
    \/ realm_down({"ok"}, {"pingable"})
    \/ premium_ends(1)
    \/ channel_unset(1)

SpecConfig == InitDelivery /\ [][NextConfig]_vars

\* the same, never coming to a halt: the event loop goes on running the
\* tasks that are ready, and the poll loop goes on polling
SpecConfigFair == SpecConfig /\ WF_vars(NextConfig)

----------------------------------------------------------------------------
\* Events of one realm overtaking each other: realm 1 is polled again while
\* an event of the poll before is still with its listener.

NextOrder ==
    \/ \E out \in DeliveryOutcomes : StartPollWhen(1, out, ShortQueue)
    \/ FinishPoll(1)
    \/ on_playerlist_finish
    \/ on_live_playerlist_send({"ok"})
    \/ realm_down({"ok"}, {"pingable"})

SpecOrder == InitDelivery /\ [][NextOrder]_vars

----------------------------------------------------------------------------
\* A realm without data: realm 1, read by both guilds, answers every poll
\* with an empty snapshot while time passes; the warnings are delivered or
\* not.

NextStale ==
    \/ StartPollWhen(1, Snapshot({}), Idle)
    \/ FinishPoll(1)
    \/ Tick
    \/ HalfDayPasses
    \/ warning_missing_playerlist({"ok", "http_error"}, Leaves)
    \/ on_error

SpecStale == InitDelivery /\ [][NextStale]_vars

----------------------------------------------------------------------------
\* Deliveries attempted and failing: both guilds read realm 1 live and have an
\* offline role, which can be pinged unless fetching it fails; player 1 joins
\* realm 1 and the realm goes down and comes back; every guild is cached, a
\* delivery succeeds or fails with either exception.

Attempts == {"ok", "value_error", "http_error"}

NextContain ==
    \/ \E out \in DeliveryOutcomes : StartPollWhen(1, out, Idle)
    \/ FinishPoll(1)
    \/ on_playerlist_finish
    \/ on_live_playerlist_send(Attempts)
    \/ realm_down(Attempts, {"pingable", "raises"})
    \/ on_error

SpecContain == InitDelivery /\ [][NextContain]_vars

----------------------------------------------------------------------------
\* Realms falling silent: the minutes and the days pass while realm 1 answers
\* its polls with a player or with nobody, and realm 2 with nobody; the
\* guilds are not in the cache when a staleness warning is due, so no
\* counter moves.

SilenceOutcomes(r) ==
    IF r = 1 THEN {Snapshot({1}), Snapshot({})} ELSE {Snapshot({})}

NextSilence ==
    \/ \E r \in Realms : \E out \in SilenceOutcomes(r) : StartPollWhen(r, out, Idle)
    \/ \E r \in Realms : FinishPoll(r)
    \/ on_playerlist_finish
    \/ on_live_playerlist_send({"ok"})
    \/ warning_missing_playerlist({"no_guild"}, {"left"})
    \/ Tick
    \/ HalfDayPasses

SpecSilence == InitPresence /\ [][NextSilence]_vars


----------------------------------------------------------------------------
\* Steps, as the properties below tell them apart.

\* a poll cycle of realm r ends in this step
PollStep(r) ==
    /\ epoch' = epoch
    /\ inflight[r] # <<>>
    /\ inflight'[r] = Tail(inflight[r])

\* start() runs in this step
StartStep == epoch' # epoch

\* this step dispatches an event of the type for realm r
Dispatched(type, r) ==
    /\ epoch' = epoch
    /\ Len(events') > Len(events)
    /\ \E i \in (Len(events) + 1)..Len(events') :
          events'[i].type = type /\ events'[i].realm_id = r

\* the listener at position i goes on to its next await in this step
Continues(i) ==
    /\ epoch' = epoch
    /\ inflight' = inflight
    /\ i \in 1..Len(events)
    /\ Len(events') >= Len(events)
    /\ events'[i] # events[i]
    /\ events'[i].type = events[i].type
    /\ \A j \in 1..Len(events) : j # i => events'[j] = events[j]

\* the listener at position i returns in this step, or raises
Returns(i) ==
    /\ epoch' = epoch
    /\ inflight' = inflight
    /\ i \in 1..Len(events)
    /\ \/ events' = Remove(events, i)
       \/ events' = Append(Remove(events, i), Error)

\* the listener at position i raises in this step
Raises(i) ==
    /\ epoch' = epoch
    /\ inflight' = inflight
    /\ i \in 1..Len(events)
    /\ events' = Append(Remove(events, i), Error)

\* the listener at position i takes a step
Steps(i) == Continues(i) \/ Returns(i)

\* a listener of an event of the type takes the step that leaves pc
StepsFrom(i, type, pc) ==
    /\ Steps(i)
    /\ events[i].type = type
    /\ events[i].pc = pc

\* a listener that holds the configuration of guild g ends its iteration
\* for g in this step
IterationEnds(i, g) ==
    /\ Steps(i)
    /\ events[i].type \in {"live_playerlist_send", "realm_down",
                           "warn_missing_playerlist"}
    /\ events[i].order # <<>>
    /\ Head(events[i].order) = g
    /\ Returns(i) \/ events'[i].order # events[i].order

\* a listener takes a step
ListenerStep == \E i \in 1..Len(events) : Steps(i)

RECURSIVE SumLen(_, _)
SumLen(f, S) ==
    IF S = {} THEN 0
    ELSE LET x == CHOOSE y \in S : TRUE IN Len(f[x]) + SumLen(f, S \ {x})

\* the external poll calls in flight
InFlight == SumLen(inflight, PollTasks)

\* the change events of realm r with their listeners
ChangeEvents(queue, r) ==
    Cardinality({i \in 1..Len(queue) :
                    queue[i].type = "live_playerlist_send" /\ queue[i].realm_id = r})

----------------------------------------------------------------------------
\* C1: a poll of realm R that ends with snapshot S2 while the presence store
\* holds S1 leaves the store of R at S2; when S1 and S2 differ it emits one
\* change event with joined = S2 - S1 and left = S1 - S2 (no participant in
\* both); the stores of the other realms stay as they are.
DiffYieldsJoinedLeftAndStore ==
    [][\A r \in Realms :
        (PollStep(r) /\ Head(inflight[r]).kind = "snapshot") =>
            LET S1 == online_cache[r]
                S2 == Head(inflight[r]).players
            IN  /\ online_cache'[r] = S2
                /\ \A x \in Realms \ {r} : online_cache'[x] = online_cache[x]
                /\ S1 # S2 =>
                     /\ Len(events') = Len(events) + 2
                     /\ LET e == events'[Len(events')]
                        IN  /\ e.type = "live_playerlist_send"
                            /\ e.realm_id = r
                            /\ e.joined = {p \in Players : p \in S2 /\ p \notin S1}
                            /\ e.left = {p \in Players : p \in S1 /\ p \notin S2}
                            /\ e.joined \cap e.left = {}]_vars

\* realm 1 went from {1} to {2} while player 2 was online in realm 2: the
\* change event dispatched last says so
DiffSwapWitness ==
    /\ events # <<>>
    /\ LET e == events[Len(events)]
       IN  /\ e.type = "live_playerlist_send"
           /\ e.realm_id = 1
           /\ e.joined = {2}
           /\ e.left = {1}
    /\ online_cache[1] = {2}
    /\ online_cache[2] = {2}

----------------------------------------------------------------------------
\* C2: a realm-down event is dispatched for realm R exactly in the steps in
\* which a poll of R ends unreachable and the poll outcome before it was not
\* unreachable; an unreachable outcome that follows an unreachable one
\* dispatches nothing, also when the process was started again in between.
RealmDownOncePerTransition ==
    [][\A r \in Realms :
        Dispatched("realm_down", r) <=>
            /\ PollStep(r)
            /\ Head(inflight[r]).kind = "unreachable"
            /\ down_streak[r] = 0]_vars

\* realm 1 has been unreachable twice in a row, after a restart, and the
\* listener of the one realm-down event has returned
RealmDownOnceWitness ==
    /\ down_streak[1] >= 2
    /\ epoch > 0
    /\ 1 \in offline_realms
    /\ events = <<>>

----------------------------------------------------------------------------
\* C3, as claimed: a change event that lists everyone online in the realm as
\* left is dispatched only by a poll that ends with a snapshot, so an
\* unreachable poll never leads to one.
ChangeEventOnlyFromSnapshot ==
    [][\A r \in Realms :
        (/\ Dispatched("live_playerlist_send", r)
         /\ online_cache[r] # {}
         /\ events'[Len(events')].left = online_cache[r]) =>
            (PollStep(r) /\ Head(inflight[r]).kind = "snapshot")]_vars

\* C3, amended: a poll that ends unreachable leaves the presence store as it
\* is and dispatches no change event itself; the realm-down listener, when
\* it starts, dispatches one change event with joined empty and left = the
\* disconnected participants exactly when the realm has a live subscriber,
\* and none otherwise; every other change event comes from a snapshot.
UnreachableBypassesDiff ==
    [][\A r \in Realms :
        /\ (PollStep(r) /\ Head(inflight[r]).kind = "unreachable") =>
              /\ online_cache' = online_cache
              /\ ~Dispatched("live_playerlist_send", r)
              /\ Dispatched("realm_down", r) =>
                    events'[Len(events')].left = online_cache[r]
        /\ \A i \in 1..Len(events) :
              (StepsFrom(i, "realm_down", "dispatched") /\ events[i].realm_id = r) =>
                  /\ online_cache' = online_cache
                  /\ LET started == [events EXCEPT ![i].pc = "filter"]
                     IN  IF live_playerlist_store[r] # {}
                         THEN events' = Append(started,
                                  LivePlayerlistSend(r, {}, events[i].left,
                                                     events[i].timestamp))
                         ELSE events' = started
        /\ Dispatched("live_playerlist_send", r) =>
              \/ PollStep(r) /\ Head(inflight[r]).kind = "snapshot"
              \/ \E i \in 1..Len(events) :
                    /\ StepsFrom(i, "realm_down", "dispatched")
                    /\ events[i].realm_id = r]_vars

\* realm 1, with a live subscriber and a player online, is marked offline and
\* the change event that lists the player as left has been dispatched
UnreachableLeftWitness ==
    /\ 1 \in offline_realms
    /\ online_cache[1] # {}
    /\ events # <<>>
    /\ LET e == events[Len(events)]
       IN  /\ e.type = "live_playerlist_send"
           /\ e.realm_id = 1
           /\ e.joined = {}
           /\ e.left = online_cache[1]

----------------------------------------------------------------------------
\* C4: no realm has more than one poll cycle in flight.
NoOverlap == \A r \in PollTasks : Len(inflight[r]) <= 1

\* a cycle of realm 1 is in flight, so its next tick is skipped
NoOverlapWitness == Len(inflight[1]) = 1 /\ ~MayStart(inflight, 1)

----------------------------------------------------------------------------
\* C5: at most 12 external poll calls are in flight over all realms, each
\* holding one permit of the gate.
GateBoundsPolls == InFlight <= 12 /\ pl_sem = 12 - InFlight /\ pl_sem >= 0

\* twelve polls are in flight, the gate is closed and a realm waits
GateFullWitness ==
    /\ InFlight = 12
    /\ pl_sem = 0
    /\ \E r \in PollTasks : inflight[r] = <<>>

----------------------------------------------------------------------------
\* a guild loses its delivery channel to the policy in this step
Deactivated(g) == configs[g].playerlist_chan /\ ~configs'[g].playerlist_chan

\* the policy call of a listener's iteration for guild g returns in this step
PolicyReturns(g) ==
    \E i \in 1..Len(events) :
        /\ StepsFrom(i, events[i].type, "eventually_invalidate")
        /\ events[i].type \in {"live_playerlist_send", "realm_down"}
        /\ Head(events[i].order) = g

\* C6: with the channel limit of 3, a guild is deactivated exactly when the
\* third policy call since its counter was last cleared returns: the step is
\* the return of a policy call that follows a failed delivery to the guild,
\* two calls have returned before it, at least three deliveries to the guild
\* have failed with an HTTPException, and the counter is cleared; the return
\* of a first or second call deactivates nothing, and the counter never
\* stands at the limit.
DisabledOnLimitExactly ==
    [][\A g \in Guilds :
        /\ Deactivated(g) =>
              /\ PolicyReturns(g)
              /\ invalid_count[g]["channel"] = 3 - 1
              /\ fail_calls[g] = 3
              /\ g \in attempted'
              /\ g \notin delivered'
              /\ invalid_count'[g]["channel"] = 0
        /\ (PolicyReturns(g) /\ invalid_count[g]["channel"] < 3 - 1) =>
              /\ ~Deactivated(g)
              /\ invalid_count'[g]["channel"] = invalid_count[g]["channel"] + 1
        /\ (PolicyReturns(g) /\ invalid_count[g]["channel"] = 3 - 1) =>
              ~configs'[g].playerlist_chan
        /\ invalid_count'[g]["channel"] < 3]_vars

\* guild 1 has been deactivated after its third failed delivery, guild 2 is
\* still served after two
DisabledOnLimitWitness ==
    /\ ~configs[1].playerlist_chan
    /\ fail_calls[1] = 0
    /\ invalid_count[1]["channel"] = 0
    /\ configs[2].playerlist_chan
    /\ fail_calls[2] = 2

----------------------------------------------------------------------------
\* C7: the step in which a listener delivers to a guild leaves the guild's
\* channel failure counter at zero.
SuccessResetsCounter ==
    [][\A g \in Guilds : \A i \in 1..Len(events) :
        (/\ Steps(i)
         /\ events[i].type \in {"live_playerlist_send", "realm_down"}
         /\ g \notin events[i].delivered
         /\ g \in delivered') =>
                invalid_count'[g]["channel"] = 0]_vars

----------------------------------------------------------------------------
\* C8: within one process lifetime a key of the identifier cache keeps its
\* identifier, no two keys share one, and identifiers are handed out only to
\* keys that had none.
ResolveIsStable ==
    [][~StartStep =>
        /\ \A k \in Keys : uuid_cache[k] # 0 => uuid_cache'[k] = uuid_cache[k]
        /\ \A k1, k2 \in Keys :
              (uuid_cache'[k1] # 0 /\ uuid_cache'[k1] = uuid_cache'[k2]) => k1 = k2
        /\ next_uuid' - next_uuid =
              Cardinality({k \in Keys : uuid_cache[k] = 0 /\ uuid_cache'[k] # 0})]_vars

\* player 1 of realm 1 joined and left again: its row, under the identifier
\* still cached, is offline
ResolveTwiceWitness ==
    /\ uuid_cache[<<1, 1>>] # 0
    /\ sessions[uuid_cache[<<1, 1>>]] # NoRow
    /\ ~sessions[uuid_cache[<<1, 1>>]].online
    /\ sessions[uuid_cache[<<1, 1>>]].xuid = 1
    /\ 1 \notin online_cache[1]

----------------------------------------------------------------------------
\* C9: start() turns every row that was online with last_seen more than 5
\* minutes back to offline and keeps its participant out of the presence
\* store, leaves every other row as it was, and fills the presence store with
\* exactly the participants of the rows still online.
StartupRecovery ==
    [][StartStep =>
        /\ \A id \in Ids :
              IF sessions[id] # NoRow /\ sessions[id].online
                    /\ now - sessions[id].last_seen > 5
              THEN /\ sessions'[id] = [sessions[id] EXCEPT !.online = FALSE]
                   /\ sessions[id].xuid \notin online_cache'[sessions[id].realm_id]
              ELSE sessions'[id] = sessions[id]
        /\ \A r \in Realms :
              online_cache'[r] =
                  {p \in Players :
                      \E id \in Ids : /\ sessions'[id] # NoRow
                                      /\ sessions'[id].online
                                      /\ sessions'[id].realm_id = r
                                      /\ sessions'[id].xuid = p}]_vars

\* the last start found a row online and six minutes old, and another one
\* five minutes old or younger that it kept online
StartupRecoveryWitness ==
    /\ epoch > 0
    /\ \E id \in recovered : ~sessions[id].online /\ sessions[id].last_seen < now - 5
    /\ \E id \in Ids \ recovered :
          /\ sessions[id] # NoRow
          /\ sessions[id].online
          /\ sessions[id].xuid \in online_cache[sessions[id].realm_id]

----------------------------------------------------------------------------
\* C10: a poll that ends with a delta hands the persistence listener one
\* container with one row for every participant in joined or left, of that
\* realm, online exactly for joined and stamped with the time of the poll;
\* the listener writes every row of a container (a row that exists takes
\* online and last_seen of the new one) and changes no other row.
DeltaRowsUpserted ==
    [][/\ \A r \in Realms :
            (/\ PollStep(r)
             /\ Head(inflight[r]).kind = "snapshot"
             /\ Head(inflight[r]).players # online_cache[r]) =>
                LET e == events'[Len(events) + 1]
                    delta == events'[Len(events) + 2]
                    who == delta.joined \cup delta.left
                    rows == e.containers[1].player_sessions
                IN  /\ e.type = "playerlist_parse_finish"
                    /\ Len(e.containers) = 1
                    /\ delta.type = "live_playerlist_send"
                    /\ \A p \in who :
                          \E row \in rows :
                              /\ row.realm_id = r
                              /\ row.xuid = p
                              /\ row.online = (p \in delta.joined)
                              /\ row.last_seen = now
                              /\ row.custom_id = uuid_cache'[<<r, p>>]
                    /\ Cardinality(rows) = Cardinality(who)
       /\ \A i \in 1..Len(events) :
            StepsFrom(i, "playerlist_parse_finish", "bulk_create") =>
                LET rows == Head(events[i].containers).player_sessions
                IN  /\ \A row \in rows : sessions'[row.custom_id] = row
                    /\ \A id \in Ids :
                          sessions'[id] # sessions[id] =>
                              \E row \in rows : row.custom_id = id]_vars

\* players 1 and 2 were online in realm 1; the poll returned {2} later on:
\* the row of 1 is offline with the new time, the row of 2 keeps the old one
DeltaRowsWitness ==
    \E a, b \in Ids :
        /\ sessions[a] # NoRow /\ sessions[b] # NoRow
        /\ sessions[a].xuid = 1 /\ ~sessions[a].online
        /\ sessions[b].xuid = 2 /\ sessions[b].online
        /\ sessions[a].last_seen > sessions[b].last_seen
        /\ online_cache[1] = {2}
        /\ events = <<>>

----------------------------------------------------------------------------
\* C11: the session table holds at most one row for a pair of realm and
\* participant.
OneRowPerPair ==
    \A a, b \in Ids :
        (/\ sessions[a] # NoRow /\ sessions[b] # NoRow
         /\ sessions[a].realm_id = sessions[b].realm_id
         /\ sessions[a].xuid = sessions[b].xuid) => a = b

----------------------------------------------------------------------------
\* the events change in this step, and neither the poll scheduler, nor
\* start(), nor the arrival of a guild event changes them
EventsMove ==
    /\ epoch' = epoch
    /\ inflight' = inflight
    /\ events' # events
    /\ ~(/\ Len(events') = Len(events) + 1
         /\ SubSeq(events', 1, Len(events)) = events
         /\ events'[Len(events')].type \in {"guild_left", "guild_join"})

\* the await the listener at position i stands at raises: GuildConfig.get
\* for a guild whose row is gone, GuildConfig.create for a guild that has a
\* row
ListenerRaises(i) ==
    \/ /\ events[i].type = "live_playerlist_send"
       /\ events[i].pc = "get"
       /\ configs[Head(events[i].order)] = NoConfig
    \/ /\ events[i].type = "guild_join"
       /\ events[i].pc = "create"
       /\ configs[events[i].guild_id] # NoConfig

\* the await the listener at position i stands at can raise: the ones that
\* do, guild.fetch_role of the realm-down listener, and fetch_playerlist_channel
\* and leave_realm of the staleness listener
ListenerMayRaise(i) ==
    \/ ListenerRaises(i)
    \/ /\ events[i].type = "realm_down"
       /\ events[i].pc = "fetch_role"
    \/ /\ events[i].type = "warn_missing_playerlist"
       /\ events[i].pc \in {"fetch_playerlist_channel", "leave_realm"}

\* the tasks that were in the queue and are still in it after this step
Kept ==
    IF \E i \in 1..Len(events) : Returns(i) THEN Len(events) - 1 ELSE Len(events)

\* the tasks this step creates are, event by event, one task for every
\* listener registered for the type of the event, in the order of
\* registration, none of them started
FansOut ==
    epoch' = epoch =>
        /\ Len(events') >= Kept
        /\ \A k \in (Kept + 1)..Len(events') :
              LET e == events'[k]
                  registered == Listeners(e.type)
              IN  /\ e.pc = "dispatched"
                  /\ \E n \in 1..Len(registered) :
                        /\ e.listener = registered[n]
                        /\ n > 1 =>
                              /\ k - 1 > Kept
                              /\ events'[k - 1] = Task(e, registered[n - 1])
                        /\ n < Len(registered) =>
                              /\ k + 1 <= Len(events')
                              /\ events'[k + 1] = Task(e, registered[n + 1])

----------------------------------------------------------------------------
\* C13: the listener of a change event has its message sent to a guild
\* (chan.send returns) only when every change event of the same realm
\* dispatched before its own has been handled.
PerRealmOrderKept ==
    [][\A i \in 1..Len(events) :
        (StepsFrom(i, "live_playerlist_send", "send") /\ delivered' # events[i].delivered) =>
            \A j \in 1..(i - 1) :
                ~(/\ events[j].type = "live_playerlist_send"
                  /\ events[j].realm_id = events[i].realm_id)]_vars

----------------------------------------------------------------------------
\* C14: the listener of a change event that reads the configuration of a
\* live subscriber and finds no premium code awaits invalidate_premium next,
\* without a call of fetch_playerlist_channel for the guild; when that
\* returns the iteration for the guild is over: no delivery has been
\* attempted, the failure counters are as they were, the guild's live
\* playerlist is switched off, its channel stays, and the guild has left the
\* live subscriber set.
PremiumLossBypassesCounter ==
    [][\A g \in Guilds : \A i \in 1..Len(events) :
        /\ (/\ StepsFrom(i, "live_playerlist_send", "get")
            /\ Head(events[i].order) = g
            /\ Continues(i)
            /\ ~events'[i].fetched[g].premium_code) =>
               /\ events'[i].pc = "invalidate_premium"
               /\ events'[i].order = events[i].order
               /\ g \notin attempted'
               /\ invalid_count' = invalid_count
               /\ fail_calls' = fail_calls
        /\ (/\ StepsFrom(i, "live_playerlist_send", "invalidate_premium")
            /\ Head(events[i].order) = g) =>
               /\ ~events[i].fetched[g].premium_code
               /\ IterationEnds(i, g)
               /\ g \notin attempted'
               /\ invalid_count'[g] = invalid_count[g]
               /\ fail_calls'[g] = fail_calls[g]
               /\ ~configs'[g].live_playerlist
               /\ configs'[g].playerlist_chan = configs[g].playerlist_chan
               /\ g \notin live_playerlist_store'[events[i].realm_id]]_vars

\* guild 1 lost its premium code after two failed deliveries: the change
\* event handled last went to guild 2 only, guild 1 is out of the live
\* subscribers and its counter still stands at two
PremiumLossWitness ==
    /\ ~configs[1].premium_code
    /\ ~configs[1].live_playerlist
    /\ configs[1].playerlist_chan
    /\ 1 \notin live_playerlist_store[1]
    /\ invalid_count[1]["channel"] = 2
    /\ delivered = {2}
    /\ attempted = {2}
    /\ events = <<>>

----------------------------------------------------------------------------
\* C15: whichever listener comes to a guild without a playerlist channel
\* (the change event's for a live subscriber, the realm-down and the
\* staleness warning's for a guild linked to the realm) attempts no delivery
\* to it and, by the end of its iteration for the guild, has switched its
\* live playerlist off and taken it out of the live subscriber sets.
NoChannelDeactivated ==
    [][\A g \in Guilds : \A i \in 1..Len(events) :
        (IterationEnds(i, g) /\ ~events[i].fetched[g].playerlist_chan) =>
            /\ g \notin attempted'
            /\ ~configs'[g].live_playerlist
            /\ \A r \in Realms : g \notin live_playerlist_store'[r]]_vars

----------------------------------------------------------------------------
\* the bot leaves realm r at the source in this step
Drops(r) == r \notin dropped /\ r \in dropped'

\* C16: a realm is left at the source only when no guild linked to it has a
\* playerlist channel any more (or no guild is linked to it at all): a realm
\* that still has a guild with a channel is never left.
DroppedOnlyWithoutViable ==
    [][\A r \in Realms :
        Drops(r) => \A g \in ConfigsOf(configs', r) : ~configs'[g].playerlist_chan]_vars

----------------------------------------------------------------------------
\* C17: a guild that the staleness warning listener deactivates (the policy
\* call of its iteration for the guild returns at the limit) has had a
\* staleness warning delivered before.
WarnedBeforeDeactivation ==
    [][\A g \in Guilds : \A i \in 1..Len(events) :
        (/\ StepsFrom(i, "warn_missing_playerlist", "eventually_invalidate")
         /\ Deactivated(g)) =>
            g \in warned]_vars

----------------------------------------------------------------------------
\* C18, as claimed: after every start the offline set in memory is the set
\* of realms with a marker.
OfflineSetSurvivesRestart ==
    [][StartStep => offline_realms' = missing_realm']_vars

\* C18, amended: start() leaves the markers as they are and loads them into
\* the offline set unless the process runs in test mode, where the set starts
\* empty and no realm is polled; outside test mode the set equals the
\* markers, and a realm that has its marker and is found unreachable again
\* triggers no realm-down event.
OfflineSetReloaded ==
    [][/\ StartStep =>
              /\ missing_realm' = missing_realm
              /\ offline_realms' = IF test_mode' THEN {} ELSE missing_realm
       /\ ~test_mode' => offline_realms' = missing_realm'
       /\ test_mode => inflight' = inflight \/ StartStep
       /\ \A r \in Realms :
              (/\ PollStep(r)
               /\ Head(inflight[r]).kind = "unreachable"
               /\ r \in missing_realm) => ~Dispatched("realm_down", r)]_vars

\* realm 1 was marked offline and the process has been started twice since,
\* the last time outside test mode: the set holds realm 1, and the poll that
\* found it unreachable again dispatched nothing
OfflineSetReloadedWitness ==
    /\ epoch = 2
    /\ ~test_mode
    /\ missing_realm = {1}
    /\ offline_realms = {1}
    /\ down_streak[1] = 2
    /\ events = <<>>
    /\ inflight[1] = <<>>

----------------------------------------------------------------------------
\* C19: a realm becomes unreachable only by a poll that ends unreachable and
\* reachable again only by a poll that ends with a snapshot; it is left at
\* the source only while it is marked offline; once left it stays left, no
\* poll cycle is started for it and no event is dispatched for it.
ReachabilityTransitions ==
    [][\A r \in Realms :
        /\ (r \notin offline_realms /\ r \in offline_realms') =>
              PollStep(r) /\ Head(inflight[r]).kind = "unreachable"
        /\ (r \in offline_realms /\ r \notin offline_realms') =>
              PollStep(r) /\ Head(inflight[r]).kind = "snapshot"
        /\ Drops(r) => r \in offline_realms
        /\ r \in dropped =>
              /\ r \in dropped'
              /\ Len(inflight'[r]) <= Len(inflight[r])
              /\ \A type \in {"live_playerlist_send", "realm_down",
                               "warn_missing_playerlist"} : ~Dispatched(type, r)]_vars

----------------------------------------------------------------------------
\* C20: a realm has an offline marker exactly while its last poll outcome is
\* unreachable and the bot has not left it.
MarkerTracksUnreachable ==
    \A r \in Realms :
        r \in missing_realm <=> (down_streak[r] > 0 /\ r \notin dropped)

----------------------------------------------------------------------------
\* the guilds the listener at position i calls fetch_playerlist_channel for
\* in this step
NewlyAttempted(i) ==
    IF Steps(i) /\ events[i].type \in {"live_playerlist_send", "realm_down",
                                       "warn_missing_playerlist"}
    THEN attempted' \ events[i].attempted
    ELSE {}

----------------------------------------------------------------------------
\* C22: the listener of a change event calls fetch_playerlist_channel for
\* every live subscriber it reads with premium code and channel, and the
\* realm-down listener for every guild it has read with channel and offline
\* role (after guild.fetch_role), whatever the deliveries to the other
\* guilds came to (failed, deactivated, skipped): after its iteration for a
\* guild the listener goes on with the guilds it has still to go through and
\* returns only when none is left; it never raises (no Error event), it
\* leaves the row and the counters of a guild it delivers to as they are,
\* and it leaves the poll scheduler's state untouched.
FailureContained ==
    [][\A i \in 1..Len(events) :
        /\ \A g \in Guilds :
            /\ (/\ StepsFrom(i, "live_playerlist_send", "get")
                /\ Head(events[i].order) = g
                /\ configs[g].premium_code
                /\ configs[g].playerlist_chan) =>
                   g \in NewlyAttempted(i)
            /\ (/\ StepsFrom(i, "realm_down", "notify")
                /\ Head(events[i].order) = g
                /\ events[i].fetched[g].playerlist_chan
                /\ events[i].fetched[g].realm_offline_role) =>
                   /\ Continues(i)
                   /\ events'[i].pc = "fetch_role"
                   /\ events'[i].order = events[i].order
            /\ (StepsFrom(i, "realm_down", "fetch_role") /\ Head(events[i].order) = g) =>
                   g \in NewlyAttempted(i)
            /\ (/\ Steps(i)
                /\ events[i].type \in {"live_playerlist_send", "realm_down"}
                /\ g \in delivered' \ events[i].delivered) =>
                   /\ configs'[g] = configs[g]
                   /\ invalid_count'[g] = invalid_count[g]
            /\ (/\ IterationEnds(i, g)
                /\ events[i].type \in {"live_playerlist_send", "realm_down"}) =>
                   IF Len(events[i].order) > 1
                   THEN /\ Continues(i)
                        /\ events'[i].order = Tail(events[i].order)
                        /\ events'[i].guilds = events[i].guilds
                   ELSE events' = Remove(events, i)
        /\ (Steps(i) /\ events[i].type \in {"live_playerlist_send", "realm_down"}) =>
               /\ attempted' \subseteq events[i].guilds
               /\ \A j \in 1..Len(events') : events'[j].type # "error"
               /\ pl_sem' = pl_sem
               /\ inflight' = inflight
               /\ online_cache' = online_cache
               /\ offline_realms' = offline_realms]_vars

----------------------------------------------------------------------------
\* C23: a poll of realm R that ends with a snapshot different from the
\* presence store of R adds exactly one change event of R to the queue; a
\* poll whose snapshot equals the store (a quiet poll) adds no event at all
\* and leaves presence store, identifier cache and session table as they
\* are; neither adds a change event of another realm.
OneChangeEventPerDelta ==
    [][\A r \in Realms :
        (PollStep(r) /\ Head(inflight[r]).kind = "snapshot") =>
            LET S == Head(inflight[r]).players
            IN  /\ IF S = online_cache[r]
                   THEN /\ events' = events
                        /\ online_cache' = online_cache
                        /\ uuid_cache' = uuid_cache
                        /\ next_uuid' = next_uuid
                        /\ sessions' = sessions
                   ELSE /\ ChangeEvents(events', r) = ChangeEvents(events, r) + 1
                        /\ events'[Len(events')].joined \cup events'[Len(events')].left # {}
                /\ \A x \in Realms \ {r} :
                       ChangeEvents(events', x) = ChangeEvents(events, x)]_vars

\* realm 1 went down with player 1 online and came back with the same
\* player online: the poll that cleared the offline mark was quiet, the one
\* event left is the change event of the outage, its listener not started
QuietPollWitness ==
    /\ events = <<LivePlayerlistSend(1, {}, {1}, 0)>>
    /\ 1 \notin offline_realms
    /\ down_streak[1] = 0
    /\ online_cache[1] = {1}
    /\ inflight[1] = <<>>

----------------------------------------------------------------------------
\* C24: a poll of realm R that ends with a transient error leaves presence
\* store, offline set, markers and the run of unreachable outcomes as they
\* are and dispatches no event; its permit is given back and no cycle of R
\* is in flight any more, so the next tick of R starts a poll again.
TransientIsNotUnreachable ==
    [][\A r \in Realms :
        (PollStep(r) /\ Head(inflight[r]).kind = "transient") =>
            /\ online_cache' = online_cache
            /\ offline_realms' = offline_realms
            /\ missing_realm' = missing_realm
            /\ down_streak' = down_streak
            /\ events' = events
            /\ sessions' = sessions
            /\ pl_sem' = pl_sem + 1
            /\ ~test_mode'
            /\ r \notin dropped'
            /\ MayStart(inflight', r)
            /\ GateOpen(pl_sem')]_vars

\* the source answers the poll of realm 1 with a transient error while the
\* realm is reachable and player 1 is online in it
TransientPollWitness ==
    /\ inflight[1] = <<Transient>>
    /\ online_cache[1] = {1}
    /\ 1 \notin offline_realms
    /\ missing_realm = {}
    /\ events = <<>>
    /\ epoch > 0

----------------------------------------------------------------------------
\* C25: the staleness signal of realm R is dispatched exactly in the steps in
\* which a poll of R ends with a snapshot and more than 24 hours have passed
\* since the last non-empty response of R, this one included; the time of
\* the last non-empty response of R changes only when a poll of R ends with
\* a non-empty snapshot, to the time of that poll, so a realm that answered
\* with a participant within the last 24 hours gets no signal, and the
\* answers of one realm do not count for another.
StalenessAfterThreshold ==
    [][\A r \in Realms :
        /\ Dispatched("warn_missing_playerlist", r) <=>
              /\ PollStep(r)
              /\ Head(inflight[r]).kind = "snapshot"
              /\ now - last_data'[r] > 24 * 60
        /\ last_data'[r] =
              IF PollStep(r) /\ Head(inflight[r]).kind = "snapshot"
                    /\ Head(inflight[r]).players # {}
              THEN now
              ELSE last_data[r]
        /\ Dispatched("warn_missing_playerlist", r) =>
              /\ now - last_data[r] > 24 * 60
              /\ Head(inflight[r]).players = {}
              /\ events'[Len(events')].timestamp = now]_vars

\* realm 1 answered with player 1 one minute after the start and with nobody
\* 24 hours and one minute later: the signal has been dispatched, behind the
\* delta that reports the player as gone
StalenessWitness ==
    /\ last_data[1] = 1
    /\ last_data[2] = 0
    /\ now = 1442
    /\ Len(events) = 3
    /\ events[2] = LivePlayerlistSend(1, {}, {1}, 1442)
    /\ events[3] = WarnMissingPlayerlist(1, 1442)
    /\ inflight[2] = <<>>
    /\ online_cache[1] = {}

----------------------------------------------------------------------------
\* C26: every guild in the live subscriber set of a realm has a
\* configuration, linked to that realm, with the live playerlist switched on.
LiveStoreMatchesConfigs ==
    \A r \in Realms :
        \A g \in live_playerlist_store[r] :
            /\ configs[g] # NoConfig
            /\ configs[g].realm_id = r
            /\ configs[g].live_playerlist

----------------------------------------------------------------------------
\* C27: the listener of a guild-left event deletes the session rows of the
\* guild's realm, and the realm is left, only when no other guild is linked
\* to the realm; while another guild is linked to it the rows stay and the
\* realm is not left.
SessionsKeptWhileLinked ==
    [][\A i \in 1..Len(events) :
        (Steps(i) /\ events[i].type = "guild_left") =>
            LET g == events[i].guild_id
                r == events[i].fetched[g].realm_id
            IN  (sessions' # sessions \/ dropped' # dropped) =>
                    ConfigsOf(configs, r) \ {g} = {}]_vars

====
